---- MODULE Spec2Model ----
(***************************************************************************)
(* A model of the rustnut virtual machine: the container checks of         *)
(* ChesVM::run (lib.rs) and Interpreter::launch (runtime.rs), and the      *)
(* interpreter Interpreter::run (runtime.rs) with its macros.              *)
(*                                                                         *)
(* Memory is modelled byte by byte.  A multi-byte integer is the sequence  *)
(* of its bytes, least significant first (the x86_64 target of the build), *)
(* so that the 32 and 64 bit values keep their width: TLC's integers could *)
(* not hold them.  Offsets (pc, sp, bp, pp) are naturals.                  *)
(***************************************************************************)
EXTENDS Integers, Sequences, FiniteSets, TLC

VARIABLES
    bytecode,   \* the input bytes (Bytecode.bytes), a sequence of bytes
    phase,      \* position of the host: "start", "run", "loop", "exited", "returned", "rejected"
    outcome,    \* what the entry point handed back: an ExitStatus, an error or a panic
    arena,      \* the malloc'ed stack region: "none", "live" or "freed"
    freed_at,   \* the offset from the region's origin that was passed to free
    is_init_succeeded,
    es,         \* exit status (the name of the ExitStatus variant)
    pc, sp, bp, pp,
    inst_ptr,   \* offset of the instruction pointer from bytecode_ptr
    pool_ptr,   \* offset of the pool pointer from bytecode_ptr
    stack_ptr,  \* offset of the stack pointer from the origin of the region
    stack,      \* the bytes of the region up to the highest one written
    console,    \* the bytes the last host call wrote to standard output
    wild,       \* history: the memories ("bytecode", "stack") a read has left
    frames,     \* history: one record per frame that is not unwound yet, the entry point's first
    last,       \* history: the last turn of the loop, its opcode and the registers before it
    prev,       \* history: the turn of the loop before the last one
    prev2,      \* history: the turn of the loop before that
    fail        \* history: the first failing check of the run and the registers at it

vars == <<bytecode, phase, outcome, arena, freed_at, is_init_succeeded, es, pc, sp, bp, pp,
          inst_ptr, pool_ptr, stack_ptr, stack, console, wild, frames, last, prev, prev2, fail>>

----------------------------------------------------------------------------
(* Program constants *)

HEADER_SIZE == 128
pool_offset == 128
max_stack_size == 1024
usize_size == 8

MAGIC_NUMBER == <<67, 72, 69, 83, 67, 67, 66, 67>>

Uninit == 0 - 1

(* The values a read of memory that was never written, or that lies outside *)
(* the buffer, may produce.                                                 *)
GarbageBytes == {0, 205}

----------------------------------------------------------------------------
(* Bytes and integers *)

(* n as w bytes, least significant first; the naturals of the model are    *)
(* below 2^31, so the bytes above the fourth are 0                          *)
ToBytes(n, w) ==
    <<>> \o [i \in 1..w |-> IF i > 4 THEN 0
                            ELSE (n \div <<1, 256, 65536, 16777216>>[i]) % 256]

(* A usize that does not fit three bytes is kept as Huge: it is above every *)
(* length and capacity of the model, which is all the code asks of it.      *)
Huge == 256 * 256 * 256

(* the number a little-endian byte sequence stands for, saturated at Huge *)
ToNat(b) ==
    IF \E i \in 4..Len(b) : b[i] # 0 THEN Huge
    ELSE (IF Len(b) >= 1 THEN b[1] ELSE 0) + (IF Len(b) >= 2 THEN 256 * b[2] ELSE 0)
         + (IF Len(b) >= 3 THEN 65536 * b[3] ELSE 0)

(* `as isize` of an i16 *)
ToI16(b) == LET u == b[1] + 256 * b[2] IN IF u >= 32768 THEN u - 65536 ELSE u

(* w bytes of zero *)
Zero(w) == <<>> \o [i \in 1..w |-> 0]

(* `as u32` of a u8 or u16: zero extension *)
ZeroExtend(b, w) == b \o Zero(w - Len(b))

(* The stack region is kept as the sequence of its bytes up to the highest *)
(* one ever written: st[k + 1] is the byte at offset k, a byte of the       *)
(* region at or above Len(st) was never written.  A read of a byte that was *)
(* never written, or that lies outside the memory, produces g.              *)
ReadByte(mem, off, g) ==
    IF off >= 0 /\ off < Len(mem) /\ mem[off + 1] # Uninit THEN mem[off + 1] ELSE g

(* *(ptr as *mut ty) on the bytecode buffer *)
ReadCode(off, w, g) == <<>> \o [i \in 1..w |-> ReadByte(bytecode, off + i - 1, g)]

(* *(ptr as *mut ty) on the stack region *)
ReadStack(st, off, w, g) == <<>> \o [i \in 1..w |-> ReadByte(st, off + i - 1, g)]

(* n bytes of v *)
Fill(n, v) == <<>> \o [i \in 1..n |-> v]

(* *(ptr as *mut ty) = value on the stack region; a write that does not lie *)
(* in the region is dropped                                                 *)
WriteStack(st, off, value) ==
    IF off < 0 \/ off + Len(value) > max_stack_size THEN st
    ELSE SubSeq(st, 1, IF off < Len(st) THEN off ELSE Len(st)) \o Fill(off - Len(st), Uninit)
         \o value \o SubSeq(st, off + Len(value) + 1, Len(st))

----------------------------------------------------------------------------
(* The machine: the locals of Interpreter::run that its macros and match    *)
(* arms read and write.  A macro, and a statement of an arm, is an operator *)
(* from machine to machine.  `brk` is set by `break 'operator`: the rest of *)
(* the instruction is then skipped, so every operator leaves a machine with *)
(* brk set as it is.  `val` is the value the macro evaluated to, `g` what   *)
(* an undefined read produces in this step.  left and right hold the locals *)
(* left_term and right_term of calc!, value1 and value2 of the comparisons. *)

(* history only: no frame was built or unwound by the instruction *)
NoFrame == [kind |-> "none"]

Machine(g, in_loop) ==
    [pc |-> pc, sp |-> sp, bp |-> bp, pp |-> pp,
     inst_ptr |-> inst_ptr, pool_ptr |-> pool_ptr, stack_ptr |-> stack_ptr,
     stack |-> stack, es |-> es, is_init_succeeded |-> is_init_succeeded,
     in_loop |-> in_loop, brk |-> FALSE, val |-> <<>>, g |-> g,
     console |-> console, wild |-> wild,
     pool_i |-> 0, start_addr |-> 0, var_len |-> 0, arg_len |-> 0, args |-> <<>>,
     new_bp |-> 0, pop_size |-> 0, var_i |-> 0, inst_i |-> 0,
     left |-> <<>>, right |-> <<>>, value |-> <<>>, overflowing |-> FALSE,
     frame |-> NoFrame, frames |-> frames, fail |-> fail]

Regs(m) == [pc |-> m.pc, sp |-> m.sp, bp |-> m.bp, stack |-> m.stack]

NoFail == [status |-> "none", in_loop |-> FALSE]

(* history only: remember the first failing check *)
NoteFailure(m, status_kind) ==
    IF status_kind = "Success" \/ m.fail.status # "none" THEN m
    ELSE [m EXCEPT !.fail = [status |-> status_kind, in_loop |-> m.in_loop, at |-> Regs(m)]]

(* exit! as a plausible slip would have it: the definition of lines 230-237 *)
(* in force inside the loop too, so that a failing check does not break.    *)
exit_without_break(m, status_kind) ==
    [NoteFailure(m, status_kind) EXCEPT !.es = status_kind, !.is_init_succeeded = FALSE]

(* exit!: outside the 'operator loop it records the status and goes on;    *)
(* inside, the definition of line 536 shadows it and breaks out of the loop *)
exit(m, status_kind) ==
    IF m.brk THEN m
    ELSE IF m.in_loop
         THEN [NoteFailure(m, status_kind) EXCEPT !.es = status_kind, !.brk = TRUE]
         ELSE [NoteFailure(m, status_kind) EXCEPT !.es = status_kind, !.is_init_succeeded = FALSE]

(* `if failed { exit!(status_kind); }` *)
exit_if(m, failed, status_kind) ==
    IF m.brk THEN m ELSE IF failed THEN exit(m, status_kind) ELSE m

(* jump_to! as a plausible slip would have it: the position is assigned and *)
(* the pointer stays where it was                                           *)
jump_to_move_position_only(m, ptr, curr_pos, target) ==
    IF m.brk THEN m ELSE [m EXCEPT ![curr_pos] = target]

(* the two assignments of jump_to! *)
jump_to_move(m, ptr, curr_pos, target) ==
    IF m.brk THEN m
    ELSE [m EXCEPT ![ptr] = @ + (target - m[curr_pos]), ![curr_pos] = target]

(* jump_to!($ptr, $curr_pos, $jump_to, $size, $err_status); ptr and         *)
(* curr_pos name the fields of the machine                                  *)
jump_to(m, ptr, curr_pos, target, size, err_status) ==
    jump_to_move(exit_if(m, target > size, err_status), ptr, curr_pos, target)

jump_prg_to(m, index) == jump_to(m, "inst_ptr", "pc", index, Len(bytecode), "BytecodeAccessViolation")

jump_stack_to(m, index) == jump_to(m, "stack_ptr", "sp", index, max_stack_size, "StackAccessViolation")

(* the read and the two assignments of next! *)
next_read(m, ptr, curr_pos, ty) ==
    IF m.brk THEN m
    ELSE [m EXCEPT !.val = ReadCode(m[ptr], ty, m.g), ![ptr] = @ + ty, ![curr_pos] = @ + ty,
                   !.wild = IF m[ptr] < 0 \/ m[ptr] + ty > Len(bytecode)
                            THEN @ \cup {"bytecode"} ELSE @]

(* next!: read a value of ty bytes at the pointer and step over it *)
next(m, ptr, curr_pos, ty, size, err_status) ==
    next_read(exit_if(m, m[curr_pos] + ty > size, err_status), ptr, curr_pos, ty)

next_prg(m, ty) == next(m, "inst_ptr", "pc", ty, Len(bytecode), "BytecodeAccessViolation")

next_pool(m, ty) == next(m, "pool_ptr", "pp", ty, Len(bytecode), "BytecodeAccessViolation")

(* the last statement of jump_pool_to!: value_addr is the value just read *)
jump_pool_to_value_addr(m) ==
    jump_to(m, "pool_ptr", "pp", ToNat(m.val), Len(bytecode), "BytecodeAccessViolation")

jump_pool_to(m, pool_index) ==
    CHOOSE r \in
        {jump_pool_to_value_addr(next_pool(a, usize_size)) :
         a \in {jump_to(m, "pool_ptr", "pp", pool_offset + pool_index * usize_size,
                        Len(bytecode), "BytecodeAccessViolation")}} : TRUE

(* the write and the two assignments of push! *)
push_write(m, value) ==
    IF m.brk THEN m
    ELSE [m EXCEPT !.stack = WriteStack(@, m.stack_ptr, value),
                   !.sp = @ + Len(value), !.stack_ptr = @ + Len(value)]

(* push! as a plausible slip would have it: the write without the check of  *)
(* the capacity                                                             *)
push_without_check(m, value, size, err_status) == push_write(m, value)

(* push! through stack_push!: value is the byte sequence of a $ty *)
push(m, value, size, err_status) ==
    push_write(exit_if(m, m.sp + Len(value) > size, err_status), value)

stack_push(m, value) == push(m, value, max_stack_size, "StackOverflow")

(* pop! as a plausible slip would have it: the pointer retreats and the     *)
(* value is read, but the position is not moved                             *)
pop_read_keeping_pos(m, ty) ==
    IF m.brk THEN m
    ELSE [m EXCEPT !.stack_ptr = @ - ty,
                   !.val = ReadStack(m.stack, m.stack_ptr - ty, ty, m.g)]

(* the two assignments and the read of pop! *)
pop_read(m, ty) ==
    IF m.brk THEN m
    ELSE [m EXCEPT !.sp = @ - ty, !.stack_ptr = @ - ty,
                   !.val = ReadStack(m.stack, m.stack_ptr - ty, ty, m.g)]

(* pop! through unsafe_stack_pop!: no check of the frame *)
pop(m, ty, err_status) == pop_read(exit_if(m, m.sp < ty, err_status), ty)

unsafe_stack_pop(m, ty) == pop(m, ty, "StackAccessViolation")

(* the check of stack_pop! and stack_top!: the lowest sp that leaves the    *)
(* saved bp and the return address of the frame untouched                   *)
frame_guard(m, ty) == m.bp + usize_size * 2 + ty

(* stack_pop! as a plausible slip would have it: the check of the frame is  *)
(* left out                                                                 *)
stack_pop_unguarded(m, ty) == unsafe_stack_pop(m, ty)

stack_pop(m, ty) ==
    unsafe_stack_pop(exit_if(m, m.sp < frame_guard(m, ty), "StackAccessViolation"), ty)

RECURSIVE stack_pop_n(_, _, _)
stack_pop_n(m, ty, len) == IF len = 0 THEN m ELSE stack_pop_n(stack_pop(m, ty), ty, len - 1)

(* the read of top! *)
top_read(m, ty) ==
    IF m.brk THEN m ELSE [m EXCEPT !.val = ReadStack(m.stack, m.stack_ptr - ty, ty, m.g)]

top(m, ty, err_status) == top_read(exit_if(m, m.sp < ty, err_status), ty)

unsafe_stack_top(m, ty) == top(m, ty, "StackOverflow")

stack_top(m, ty) ==
    unsafe_stack_top(exit_if(m, m.sp < frame_guard(m, ty), "StackAccessViolation"), ty)

(* the second check of var_table_diff! and its value, left in val as a      *)
(* number: the distance from the stack pointer down to slot var_i           *)
(* the second check of var_table_diff! as a plausible slip would have it:   *)
(* the width of the value is left out                                       *)
var_table_diff_value_without_width(m, ty, var_i) ==
    IF m.brk THEN m
    ELSE [exit_if(m, m.sp - m.bp - usize_size * 2 < 4 * var_i, "StackAccessViolation")
            EXCEPT !.val = m.sp - m.bp - usize_size * 2 - var_i * 4]

var_table_diff_value(m, ty, var_i) ==
    IF m.brk THEN m
    ELSE [exit_if(m, m.sp - m.bp - usize_size * 2 < 4 * var_i + ty, "StackAccessViolation")
            EXCEPT !.val = m.sp - m.bp - usize_size * 2 - var_i * 4]

var_table_diff(m, ty, var_i) ==
    var_table_diff_value(exit_if(m, m.sp < m.bp + usize_size * 2, "StackAccessViolation"), ty, var_i)

(* the last statement of load!: diff is the value just computed *)
load_push(m, ty) ==
    IF m.brk THEN m ELSE stack_push(m, ReadStack(m.stack, m.stack_ptr - m.val, ty, m.g))

load(m, ty, var_i) ==
    CHOOSE r \in {load_push(a, ty) : a \in {var_table_diff(m, ty, var_i)}} : TRUE

(* store! as a plausible slip would have it: the value written at the stack *)
(* pointer, not diff bytes below it                                         *)
store_write_at_pointer(m, value) ==
    IF m.brk THEN m ELSE [m EXCEPT !.stack = WriteStack(@, m.stack_ptr, value)]

(* the last statement of store! *)
store_write(m, value) ==
    IF m.brk THEN m ELSE [m EXCEPT !.stack = WriteStack(@, m.stack_ptr - m.val, value)]

store(m, ty, var_i, value) ==
    CHOOSE r \in {store_write(a, value) : a \in {var_table_diff(m, ty, var_i)}} : TRUE

----------------------------------------------------------------------------
(* The integer operations of u32 and u64 on little-endian byte sequences    *)

IsZero(a) == \A i \in 1..Len(a) : a[i] = 0

(* a < b for two values of one width, decided at the most significant byte  *)
(* in which they differ                                                     *)
LessThan(a, b) ==
    \E i \in 1..Len(a) : a[i] < b[i] /\ \A j \in (i + 1)..Len(a) : a[j] = b[j]

(* bytes i.. of a + b + carry, and the carry out of the last byte *)
RECURSIVE AddFrom(_, _, _, _)
AddFrom(a, b, i, carry) ==
    IF i > Len(a) THEN [value |-> <<>>, overflowing |-> carry = 1]
    ELSE LET t    == a[i] + b[i] + carry
             rest == AddFrom(a, b, i + 1, t \div 256)
         IN  [value |-> <<t % 256>> \o rest.value, overflowing |-> rest.overflowing]

(* u32::overflowing_add, u64::overflowing_add: the wrapped sum and whether  *)
(* a carry left the most significant byte                                   *)
overflowing_add(a, b) == AddFrom(a, b, 1, 0)

RECURSIVE SubFrom(_, _, _, _)
SubFrom(a, b, i, borrow) ==
    IF i > Len(a) THEN [value |-> <<>>, overflowing |-> borrow = 1]
    ELSE LET t    == a[i] - b[i] - borrow
             rest == SubFrom(a, b, i + 1, IF t < 0 THEN 1 ELSE 0)
         IN  [value |-> <<(t + 256) % 256>> \o rest.value, overflowing |-> rest.overflowing]

overflowing_sub(a, b) == SubFrom(a, b, 1, 0)

(* the sum of the byte products that land in byte k of a product *)
RECURSIVE MulColumn(_, _, _, _)
MulColumn(a, b, k, i) ==
    IF i = 0 THEN 0
    ELSE (IF k + 1 - i >= 1 /\ k + 1 - i <= Len(b) THEN a[i] * b[k + 1 - i] ELSE 0)
         + MulColumn(a, b, k, i - 1)

(* bytes k..2w of the double-width product a * b *)
RECURSIVE MulFrom(_, _, _, _)
MulFrom(a, b, k, carry) ==
    IF k > 2 * Len(a) THEN <<>>
    ELSE LET t == MulColumn(a, b, k, Len(a)) + carry
         IN  <<t % 256>> \o MulFrom(a, b, k + 1, t \div 256)

(* overflowing_mul: the low half of the double-width product, and whether   *)
(* the high half is not zero                                                *)
overflowing_mul(a, b) ==
    LET p == MulFrom(a, b, 1, 0)
    IN  [value |-> SubSeq(p, 1, Len(a)), overflowing |-> ~IsZero(SubSeq(p, Len(a) + 1, 2 * Len(a)))]

(* bytes i.. of b * d for one byte d (or d = 256), two bytes wider than b *)
RECURSIVE TimesFrom(_, _, _, _)
TimesFrom(b, d, i, carry) ==
    IF i > Len(b) + 2 THEN <<>>
    ELSE LET t == (IF i <= Len(b) THEN b[i] * d ELSE 0) + carry
         IN  <<t % 256>> \o TimesFrom(b, d, i + 1, t \div 256)

(* the byte d of the quotient with d * b <= r < (d + 1) * b, for r < 256 * b *)
DivDigit(r, b) ==
    CHOOSE d \in 0..255 :
        /\ ~LessThan(r, TimesFrom(b, d, 1, 0))
        /\ LessThan(r, TimesFrom(b, d + 1, 1, 0))

(* long division, one byte of the dividend at a time from the most         *)
(* significant: bytes 1..i of the quotient, r the remainder of the bytes   *)
(* above i (two bytes wider than the operands)                             *)
RECURSIVE DivFrom(_, _, _, _)
DivFrom(a, b, i, r) ==
    IF i = 0 THEN <<>>
    ELSE LET r1 == <<a[i]>> \o SubSeq(r, 1, Len(r) - 1)
             d  == DivDigit(r1, b)
             r2 == overflowing_sub(r1, TimesFrom(b, d, 1, 0)).value
         IN  Append(DivFrom(a, b, i - 1, r2), d)

(* overflowing_div of an unsigned type: never overflowing; b = 0 panics in  *)
(* Rust and is not reached here, the quotient is then left zero             *)
overflowing_div(a, b) ==
    [value |-> IF IsZero(b) THEN Zero(Len(a)) ELSE DivFrom(a, b, Len(a), Zero(Len(a) + 2)), overflowing |-> FALSE]

Apply(f, a, b) ==
    CASE f = "overflowing_add" -> overflowing_add(a, b)
      [] f = "overflowing_sub" -> overflowing_sub(a, b)
      [] f = "overflowing_mul" -> overflowing_mul(a, b)
      [] f = "overflowing_div" -> overflowing_div(a, b)

(* `cond as u32` *)
BoolAsU32(c) == IF c THEN <<1, 0, 0, 0>> ELSE <<0, 0, 0, 0>>

----------------------------------------------------------------------------
(* The macros and match arms of the dispatch loop.  A body of several       *)
(* statements is written CHOOSE r \in {last(b) : b \in {second(a) : a \in    *)
(* {first(m)}}} : TRUE, the statements from the innermost set outwards:     *)
(* each bound variable is the machine the statements before it have left.   *)

(* `let local = <macro>;` for a value kept as its bytes *)
bind(m, local) == IF m.brk THEN m ELSE [m EXCEPT ![local] = m.val]

(* `let local = <macro> as usize;` and `bp = <macro>;` *)
bind_usize(m, local) == IF m.brk THEN m ELSE [m EXCEPT ![local] = ToNat(m.val)]

(* stack_push!($push_ty, value) of the value just evaluated, `as $push_ty` *)
stack_push_value(m, push_ty) ==
    IF m.brk THEN m ELSE stack_push(m, ZeroExtend(m.val, push_ty))

(* calc! as a plausible slip would have it: no check of the divisor *)
calc_without_divisor_check(m, check_divide_by_zero) == m

(* calc!: the check of the divisor *)
calc_divide_by_zero(m, check_divide_by_zero) ==
    exit_if(m, check_divide_by_zero /\ IsZero(m.right), "DivideByZero")

(* calc!: let (value, overflowing) = left_term.$f(right_term) *)
calc_apply(m, f) ==
    IF m.brk THEN m
    ELSE [m EXCEPT !.value = Apply(f, m.left, m.right).value,
                   !.overflowing = Apply(f, m.left, m.right).overflowing]

(* calc! as a plausible slip would have it: the wrapped value is pushed     *)
(* whether or not the operation overflowed                                  *)
calc_push_wrapped(m) == stack_push(m, m.value)

(* calc!: the check of the overflow and the push of the value *)
calc_push(m) == stack_push(exit_if(m, m.overflowing, "ArithmeticOverflow"), m.value)

calc(m, ty, f, check_divide_by_zero) ==
    CHOOSE r \in
        {calc_push(c) :
         c \in {calc_apply(calc_divide_by_zero(b, check_divide_by_zero), f) :
         b \in {bind(stack_pop(a, ty), "left") :
         a \in {bind(stack_pop(m, ty), "right")}}}} : TRUE

(* a comparison arm as a plausible slip would have it: value2, popped       *)
(* first, taken for the left operand                                        *)
compare_push_swapped(m, op) ==
    IF m.brk THEN m
    ELSE stack_push(m, BoolAsU32(CASE op = "==" -> m.right = m.left
                                   [] op = "<"  -> LessThan(m.right, m.left)
                                   [] op = "<=" -> LessThan(m.right, m.left) \/ m.right = m.left))

(* the push of a comparison arm *)
compare_push(m, op) ==
    IF m.brk THEN m
    ELSE stack_push(m, BoolAsU32(CASE op = "==" -> m.left = m.right
                                   [] op = "<"  -> LessThan(m.left, m.right)
                                   [] op = "<=" -> LessThan(m.left, m.right) \/ m.left = m.right))

(* the comparison arms: value2 is popped first, then value1 *)
compare(m, ty, op) ==
    CHOOSE r \in
        {compare_push(b, op) :
         b \in {bind(stack_pop(a, ty), "left") :
         a \in {bind(stack_pop(m, ty), "right")}}} : TRUE

(* goto! as a plausible slip would have it: the offset applied to the       *)
(* position of the opcode, not to the position after the offset bytes       *)
goto_inst_i_from_opcode(m) ==
    IF m.brk THEN m ELSE [m EXCEPT !.inst_i = m.pc - 3 + ToI16(m.val)]

(* goto!: let inst_i = pc as isize + offset as isize *)
goto_inst_i(m) == IF m.brk THEN m ELSE [m EXCEPT !.inst_i = m.pc + ToI16(m.val)]

(* goto!: the check of the sign and the jump; `inst_i as usize` of a        *)
(* negative inst_i is above every length                                    *)
goto_jump(m) ==
    jump_prg_to(exit_if(m, 0 > m.inst_i, "BytecodeAccessViolation"),
                IF m.inst_i < 0 THEN Huge ELSE m.inst_i)

goto(m) == CHOOSE r \in {goto_jump(a) : a \in {goto_inst_i(next_prg(m, 2))}} : TRUE

(* stack_push_next_prg!($ty as u32, $push_ty) *)
stack_push_next_prg(m, ty, push_ty) ==
    CHOOSE r \in {stack_push_value(a, push_ty) : a \in {next_prg(m, ty)}} : TRUE

Nop(m) == m

(* the Exit arm as a plausible slip would have it: nothing happens and the  *)
(* loop goes on                                                             *)
Exit_continuing(m) == m

Exit(m) == exit(m, "Success")

(* the Call arm as a plausible slip would have it: the word written to the  *)
(* console is popped                                                        *)
Call_code_popping(m) ==
    IF m.brk THEN m
    ELSE IF m.val[1] = 0
         THEN [unsafe_stack_pop(m, usize_size) EXCEPT
                  !.console = ReadStack(m.stack, m.stack_ptr - usize_size, usize_size, m.g)]
         ELSE exit(m, "UnknownCallNumber")

(* `match code` of the Call arm: write(1, stack_ptr.sub(8), 8) reads the    *)
(* eight bytes below the stack pointer whatever sp is                       *)
Call_code(m) ==
    IF m.brk THEN m
    ELSE IF m.val[1] = 0
         THEN [m EXCEPT !.console = ReadStack(m.stack, m.stack_ptr - usize_size, usize_size, m.g),
                        !.wild = IF m.stack_ptr < usize_size THEN @ \cup {"stack"} ELSE @]
         ELSE exit(m, "UnknownCallNumber")

Call(m) == Call_code(next_prg(m, 1))

(* the arguments read below the stack pointer, in the order of the source *)
RECURSIVE ReadArgs(_, _, _)
ReadArgs(m, arg_len, i) ==
    IF i = arg_len THEN <<>>
    ELSE <<ReadStack(m.stack, m.stack_ptr - 4 * (arg_len - i), 4, m.g)>> \o ReadArgs(m, arg_len, i + 1)

RECURSIVE PushArgs(_, _, _)
PushArgs(m, args, i) ==
    IF i > Len(args) THEN m ELSE PushArgs(stack_push(m, args[i]), args, i + 1)

(* the statements of the Invoke arm, in the order of the source *)
Invoke_jump_pool(m) == jump_pool_to(m, m.pool_i)

(* the check of the Invoke arm as a plausible slip would have it: left out *)
Invoke_check_skipped(m) == m

Invoke_check(m) ==
    exit_if(m, m.var_len < m.arg_len \/ m.sp < m.arg_len * 4, "StackAccessViolation")

Invoke_args(m) == IF m.brk THEN m ELSE [m EXCEPT !.args = ReadArgs(m, m.arg_len, 0)]

Invoke_pop_args(m) == IF m.brk THEN m ELSE stack_pop_n(m, 4, m.arg_len)

Invoke_new_bp(m) == IF m.brk THEN m ELSE [m EXCEPT !.new_bp = m.sp]

(* the push of the saved bp as a plausible slip would have it: bp is        *)
(* assigned before it is saved                                              *)
Invoke_push_new_bp(m) == stack_push(m, ToBytes(m.new_bp, usize_size))

Invoke_push_bp(m) == stack_push(m, ToBytes(m.bp, usize_size))

(* `bp = new_bp;` as a plausible slip would have it: left out *)
Invoke_set_bp_skipped(m) == m

Invoke_set_bp(m) == IF m.brk THEN m ELSE [m EXCEPT !.bp = m.new_bp]

(* the push of the return address as a plausible slip would have it: the    *)
(* address of the operand of the INVOKE, not of the byte after it           *)
Invoke_push_call_addr(m) == stack_push(m, ToBytes(m.pc - usize_size, usize_size))

Invoke_push_ret_addr(m) == stack_push(m, ToBytes(m.pc, usize_size))

(* the pushes of the arguments as a plausible slip would have it: in the    *)
(* order of the pops, the last argument first                               *)
Invoke_push_args_reversed(m) ==
    IF m.brk THEN m
    ELSE PushArgs(m, [i \in 1..Len(m.args) |-> m.args[Len(m.args) + 1 - i]], 1)

Invoke_push_args(m) == IF m.brk THEN m ELSE PushArgs(m, m.args, 1)

Invoke_skip(m) == jump_stack_to(m, m.sp + (m.var_len - m.arg_len) * 4)

Invoke_jump(m) == jump_prg_to(m, m.start_addr)

(* history only: the frame the call has built *)
Invoke_frame(m, caller_bp, caller_sp, caller_pc) ==
    IF m.brk THEN m
    ELSE [m EXCEPT !.frame = [kind |-> "call", bp |-> caller_bp, sp |-> caller_sp,
                              ret |-> caller_pc + usize_size,
                              new_bp |-> m.new_bp, start |-> m.start_addr,
                              var_len |-> m.var_len, arg_len |-> m.arg_len, args |-> m.args],
                   !.frames = Append(@, [kind |-> "call", bp |-> caller_bp, sp |-> caller_sp,
                                         ret |-> caller_pc + usize_size,
                                         new_bp |-> m.new_bp, start |-> m.start_addr,
                                         var_len |-> m.var_len, arg_len |-> m.arg_len,
                                         args |-> m.args])]

Invoke(m) ==
    CHOOSE r \in
        {Invoke_frame(Invoke_jump(Invoke_skip(Invoke_push_args(e))), m.bp, m.sp, m.pc) :
         e \in {Invoke_push_ret_addr(Invoke_set_bp(Invoke_push_bp(Invoke_new_bp(d)))) :
         d \in {Invoke_pop_args(Invoke_args(Invoke_check(c))) :
         c \in {bind_usize(next_pool(bind_usize(next_pool(b, 2), "var_len"), 1), "arg_len") :
         b \in {bind_usize(next_pool(Invoke_jump_pool(a), usize_size), "start_addr") :
         a \in {bind_usize(next_prg(m, usize_size), "pool_i")}}}}}} : TRUE

(* unsafe_stack_pop!(u8, pop_size): pop_size pops of one byte, of which the *)
(* first sp succeed                                                         *)
unsafe_stack_pop_bytes(m, pop_size) ==
    IF m.brk THEN m
    ELSE IF pop_size <= m.sp
         THEN [m EXCEPT !.sp = @ - pop_size, !.stack_ptr = @ - pop_size]
         ELSE unsafe_stack_pop([m EXCEPT !.sp = 0, !.stack_ptr = @ - m.sp], 1)

(* the statements of the Ret arm *)
Ret_check(m) ==
    exit_if(m, m.sp < m.bp \/ m.sp - m.bp < usize_size * 2, "StackAccessViolation")

Ret_pop(m) == unsafe_stack_pop_bytes(m, m.sp - m.bp - usize_size * 2)

Ret_jump(m) == jump_prg_to(m, ToNat(m.val))

(* history only: the frame the return has unwound *)
Ret_frame(m) ==
    IF m.brk THEN m
    ELSE IF m.frames = <<>> THEN m
    ELSE [m EXCEPT !.frames = SubSeq(@, 1, Len(@) - 1), !.frame = m.frames[Len(m.frames)]]

Ret(m) ==
    CHOOSE r \in
        {Ret_frame(bind_usize(unsafe_stack_pop(c, usize_size), "bp")) :
         c \in {Ret_jump(b) :
         b \in {unsafe_stack_pop(a, usize_size) :
         a \in {Ret_pop(Ret_check(m))}}}} : TRUE

Dup(m, ty) == CHOOSE r \in {stack_push_value(a, ty) : a \in {stack_top(m, ty)}} : TRUE

Pop(m, ty) == stack_pop(m, ty)

Load_var(m, ty) == load(m, ty, m.var_i)

Load(m, ty) ==
    CHOOSE r \in {Load_var(a, ty) : a \in {bind_usize(next_prg(m, 2), "var_i")}} : TRUE

Store_var(m, ty) == store(m, ty, m.var_i, m.value)

Store(m, ty) ==
    CHOOSE r \in
        {Store_var(b, ty) :
         b \in {bind(stack_pop(a, ty), "value") :
         a \in {bind_usize(next_prg(m, 2), "var_i")}}} : TRUE

(* `if cond { goto!(); }`: the offset is read only when cond holds *)
If_cond(m) == IF m.brk THEN m ELSE IF ~IsZero(m.val) THEN goto(m) ELSE m

If(m) == CHOOSE r \in {If_cond(a) : a \in {stack_pop(m, 4)}} : TRUE

(* the Unknown arm as a plausible slip would have it: the byte is skipped *)
Unknown_ignored(m) == m

Unknown(m) == exit(m, "UnknownOpcode")

(* impl From<u8> for Opcode *)
Opcode_from(value) ==
    IF value \in 0..32
    THEN <<"Nop", "Exit", "Call", "Invoke", "Ret", "BPush", "SPush", "IPush", "LPush",
           "Dup", "Dup2", "Pop", "Pop2", "Load", "Load2", "Store", "Store2",
           "IAdd", "LAdd", "ISub", "LSub", "IMul", "LMul", "IDiv", "LDiv",
           "IEq", "LEq", "IOrd", "LOrd", "IEqOrd", "LEqOrd", "Goto", "If">>[value + 1]
    ELSE "Unknown"

----------------------------------------------------------------------------
(* Bytecode.get_bytes and Bytecode.match_bytes (bytecode.rs) *)

get_bytes(bytes, begin, len) ==
    IF begin + len > Len(bytes) THEN [ok |-> FALSE, v |-> <<>>]
    ELSE [ok |-> TRUE, v |-> SubSeq(bytes, begin + 1, begin + len)]

match_bytes(bytes, begin, len, pattern) ==
    LET r == get_bytes(bytes, begin, len) IN IF r.ok THEN pattern = r.v ELSE FALSE

(* Bytecode.print: the three header items are fetched with `?` *)
print(bytes) ==
    IF ~get_bytes(bytes, 0, 8).ok \/ ~get_bytes(bytes, 8, 8).ok \/ ~get_bytes(bytes, 16, 3).ok
    THEN "IndexOutOfBytecodeRange" ELSE "Ok"

----------------------------------------------------------------------------
(* The actions *)

(* history only: no instruction was dispatched yet *)
NoLast == [op |-> 0 - 1, kind |-> "none", pc |-> 0, sp |-> 0, bp |-> 0, stack |-> <<>>,
           brk |-> FALSE, frame |-> NoFrame]

Rejected(result) ==
    /\ phase' = "rejected"
    /\ outcome' = result
    /\ UNCHANGED <<bytecode, arena, freed_at, is_init_succeeded, es, pc, sp, bp, pp,
                   inst_ptr, pool_ptr, stack_ptr, stack, console, wild, frames, last, prev, prev2,
                   fail>>

Accepted ==
    /\ phase' = "run"
    /\ UNCHANGED <<bytecode, outcome, arena, freed_at, is_init_succeeded, es, pc, sp, bp, pp,
                   inst_ptr, pool_ptr, stack_ptr, stack, console, wild, frames, last, prev, prev2,
                   fail>>

(* ChesVM::run (lib.rs), from the bytes of the file on *)
ChesVM_run ==
    /\ phase = "start"
    /\ IF print(bytecode) # "Ok" THEN Rejected(print(bytecode))
       ELSE IF HEADER_SIZE > Len(bytecode) THEN Rejected("InvalidHeaderSize")
       ELSE IF ~match_bytes(bytecode, 0, 8, MAGIC_NUMBER) THEN Rejected("InvalidMagicNumber")
       ELSE Accepted

(* Interpreter::launch (runtime.rs) *)
launch ==
    /\ phase = "start"
    /\ IF HEADER_SIZE > Len(bytecode) THEN Rejected("panic: invalid header size")
       ELSE IF ~match_bytes(bytecode, 0, 8, MAGIC_NUMBER) THEN Rejected("panic: invalid magic number")
       ELSE Accepted


(* what an action leaves in the variables of the machine *)
Commit(m) ==
    /\ pc' = m.pc /\ sp' = m.sp /\ bp' = m.bp /\ pp' = m.pp
    /\ inst_ptr' = m.inst_ptr /\ pool_ptr' = m.pool_ptr /\ stack_ptr' = m.stack_ptr
    /\ stack' = m.stack /\ es' = m.es /\ is_init_succeeded' = m.is_init_succeeded
    /\ console' = m.console /\ wild' = m.wild /\ frames' = m.frames /\ fail' = m.fail

(* Interpreter::run, the locals up to the macros: the entry point is read   *)
(* from the pool without a check of the bounds                              *)
run_locals(g, pool_value, entry_point_pc) ==
    [Machine(g, FALSE) EXCEPT
        !.pc = entry_point_pc, !.sp = 0, !.bp = 0, !.pp = pool_offset,
        !.inst_ptr = entry_point_pc, !.pool_ptr = pool_offset, !.stack_ptr = 0,
        !.stack = <<>>, !.es = "Success", !.is_init_succeeded = TRUE,
        !.wild = IF \/ pool_offset + usize_size > Len(bytecode)
                    \/ pool_value + usize_size > Len(bytecode)
                 THEN {"bytecode"} ELSE {}]

(* `if entry_point_pc >= bytecode_len { ... }` *)
run_entry_point(m) ==
    IF m.pc >= Len(bytecode)
    THEN [NoteFailure(m, "BytecodeAccessViolation") EXCEPT
             !.is_init_succeeded = FALSE, !.es = "BytecodeAccessViolation"]
    ELSE m

(* history only: the frame of the entry point *)
run_entry_frame_noted(m) ==
    [m EXCEPT !.frames = <<[kind |-> "entry", bp |-> 0, sp |-> 0, ret |-> Len(bytecode) - 1,
                            new_bp |-> 0, start |-> m.pc, var_len |-> 0, arg_len |-> 0,
                            args |-> <<>>]>>]

(* the frame of the entry point as a plausible slip would have it: the      *)
(* return address one past the last byte                                    *)
run_entry_frame_past_end(m) ==
    IF m.is_init_succeeded
    THEN run_entry_frame_noted(
             stack_push(stack_push(m, ToBytes(0, usize_size)),
                        ToBytes(Len(bytecode), usize_size)))
    ELSE m

(* the frame of the entry point: a saved bp of 0, the return address len-1 *)
run_entry_frame(m) ==
    IF m.is_init_succeeded
    THEN run_entry_frame_noted(
             stack_push(stack_push(m, ToBytes(0, usize_size)),
                        ToBytes(Len(bytecode) - 1, usize_size)))
    ELSE m

run_enter(m) ==
    /\ Commit(run_entry_frame(m))
    /\ phase' = IF m.is_init_succeeded THEN "loop" ELSE "exited"

(* Interpreter::run up to the 'operator loop: the region is allocated and   *)
(* the frame of the entry point is pushed                                   *)
run_init ==
    /\ phase = "run"
    /\ \E g \in GarbageBytes :
         run_enter(run_entry_point(
             run_locals(g, ToNat(ReadCode(pool_offset, usize_size, g)),
                        ToNat(ReadCode(ToNat(ReadCode(pool_offset, usize_size, g)), usize_size, g)))))
    /\ arena' = "live"
    /\ UNCHANGED <<bytecode, outcome, freed_at, last, prev, prev2>>

(* `let opcode = next_prg!(u8);` at the top of the loop *)
Fetch(g) == next_prg(Machine(g, TRUE), 1)

(* one turn of the 'operator loop whose opcode decodes to kind; m is the    *)
(* machine the arm of `match opcode_kind` leaves                            *)
Dispatch(kind, g, m) ==
    /\ phase = "loop"
    /\ Opcode_from(ReadByte(bytecode, inst_ptr, g)) = kind
    /\ ~Fetch(g).brk
    /\ Commit(m)
    /\ phase' = IF m.brk THEN "exited" ELSE "loop"
    /\ last' = [op |-> ReadByte(bytecode, inst_ptr, g), kind |-> kind,
                pc |-> pc, sp |-> sp, bp |-> bp, stack |-> stack,
                brk |-> m.brk, frame |-> m.frame]
    /\ prev' = last
    /\ prev2' = prev
    /\ UNCHANGED <<bytecode, outcome, arena, freed_at>>

(* the opcode itself lies outside the buffer *)
FetchFails ==
    /\ phase = "loop"
    /\ Fetch(0).brk
    /\ Commit(Fetch(0))
    /\ phase' = "exited"
    /\ last' = [NoLast EXCEPT !.kind = "fetch failed", !.pc = pc, !.sp = sp, !.bp = bp,
                              !.stack = stack, !.brk = TRUE]
    /\ prev' = last
    /\ prev2' = prev
    /\ UNCHANGED <<bytecode, outcome, arena, freed_at>>

OpNop == \E g \in GarbageBytes : Dispatch("Nop", g, Nop(Fetch(g)))
OpExit == \E g \in GarbageBytes : Dispatch("Exit", g, Exit(Fetch(g)))
OpCall == \E g \in GarbageBytes : Dispatch("Call", g, Call(Fetch(g)))
OpInvoke == \E g \in GarbageBytes : Dispatch("Invoke", g, Invoke(Fetch(g)))
OpRet == \E g \in GarbageBytes : Dispatch("Ret", g, Ret(Fetch(g)))
OpBPush == \E g \in GarbageBytes : Dispatch("BPush", g, stack_push_next_prg(Fetch(g), 1, 4))
OpSPush == \E g \in GarbageBytes : Dispatch("SPush", g, stack_push_next_prg(Fetch(g), 2, 4))
OpIPush == \E g \in GarbageBytes : Dispatch("IPush", g, stack_push_next_prg(Fetch(g), 4, 4))
OpLPush == \E g \in GarbageBytes : Dispatch("LPush", g, stack_push_next_prg(Fetch(g), 8, 8))
OpDup == \E g \in GarbageBytes : Dispatch("Dup", g, Dup(Fetch(g), 4))
OpDup2 == \E g \in GarbageBytes : Dispatch("Dup2", g, Dup(Fetch(g), 8))
OpPop == \E g \in GarbageBytes : Dispatch("Pop", g, Pop(Fetch(g), 4))
OpPop2 == \E g \in GarbageBytes : Dispatch("Pop2", g, Pop(Fetch(g), 8))
OpLoad == \E g \in GarbageBytes : Dispatch("Load", g, Load(Fetch(g), 4))
OpLoad2 == \E g \in GarbageBytes : Dispatch("Load2", g, Load(Fetch(g), 8))
OpStore == \E g \in GarbageBytes : Dispatch("Store", g, Store(Fetch(g), 4))
OpStore2 == \E g \in GarbageBytes : Dispatch("Store2", g, Store(Fetch(g), 8))
OpIAdd == \E g \in GarbageBytes : Dispatch("IAdd", g, calc(Fetch(g), 4, "overflowing_add", FALSE))
OpLAdd == \E g \in GarbageBytes : Dispatch("LAdd", g, calc(Fetch(g), 8, "overflowing_add", FALSE))
OpISub == \E g \in GarbageBytes : Dispatch("ISub", g, calc(Fetch(g), 4, "overflowing_sub", FALSE))
OpLSub == \E g \in GarbageBytes : Dispatch("LSub", g, calc(Fetch(g), 8, "overflowing_sub", FALSE))
OpIMul == \E g \in GarbageBytes : Dispatch("IMul", g, calc(Fetch(g), 4, "overflowing_mul", FALSE))
OpLMul == \E g \in GarbageBytes : Dispatch("LMul", g, calc(Fetch(g), 8, "overflowing_mul", FALSE))
OpIDiv == \E g \in GarbageBytes : Dispatch("IDiv", g, calc(Fetch(g), 4, "overflowing_div", TRUE))
OpLDiv == \E g \in GarbageBytes : Dispatch("LDiv", g, calc(Fetch(g), 8, "overflowing_div", TRUE))
OpIEq == \E g \in GarbageBytes : Dispatch("IEq", g, compare(Fetch(g), 4, "=="))
OpLEq == \E g \in GarbageBytes : Dispatch("LEq", g, compare(Fetch(g), 8, "=="))
OpIOrd == \E g \in GarbageBytes : Dispatch("IOrd", g, compare(Fetch(g), 4, "<"))
OpLOrd == \E g \in GarbageBytes : Dispatch("LOrd", g, compare(Fetch(g), 8, "<"))
OpIEqOrd == \E g \in GarbageBytes : Dispatch("IEqOrd", g, compare(Fetch(g), 4, "<="))
OpLEqOrd == \E g \in GarbageBytes : Dispatch("LEqOrd", g, compare(Fetch(g), 8, "<="))
OpGoto == \E g \in GarbageBytes : Dispatch("Goto", g, goto(Fetch(g)))
OpIf == \E g \in GarbageBytes : Dispatch("If", g, If(Fetch(g)))
OpUnknown == \E g \in GarbageBytes : Dispatch("Unknown", g, Unknown(Fetch(g)))

(* Interpreter::run after the loop: the region is freed and the status returned *)
run_return ==
    /\ phase = "exited"
    /\ phase' = "returned"
    /\ arena' = IF arena = "live" THEN "freed" ELSE "freed twice"
    /\ freed_at' = stack_ptr - sp
    /\ outcome' = es
    /\ UNCHANGED <<bytecode, is_init_succeeded, es, pc, sp, bp, pp, inst_ptr, pool_ptr,
                   stack_ptr, stack, console, wild, frames, last, prev, prev2, fail>>

----------------------------------------------------------------------------
(* The containers the model runs.  A container is the 128 byte header, the *)
(* pool (one 8 byte slot per function holding the offset of its           *)
(* descriptor, then the descriptors: start u64, var_len u16, arg_len u8)   *)
(* and the instructions of the functions, one after the other, closed by   *)
(* the byte at the sentinel return address.  Function 0 is the entry point. *)

Header == MAGIC_NUMBER \o <<114, 117, 115, 116, 110, 117, 116, 0>> \o <<1, 0, 0>> \o Zero(109)

RECURSIVE Flatten(_)
Flatten(ss) == IF ss = <<>> THEN <<>> ELSE Head(ss) \o Flatten(Tail(ss))

RECURSIVE BodyStart(_, _, _)
BodyStart(funcs, base, i) == IF i = 1 THEN base ELSE BodyStart(funcs, base, i - 1) + Len(Flatten(funcs[i - 1].body))

Container(funcs, sentinel) ==
    LET n == Len(funcs)
        desc_at(i) == pool_offset + usize_size * n + 11 * (i - 1)
        base == pool_offset + 19 * n
    IN  Header
        \o Flatten([i \in 1..n |-> ToBytes(desc_at(i), 8)])
        \o Flatten([i \in 1..n |-> ToBytes(BodyStart(funcs, base, i), 8)
                                   \o ToBytes(funcs[i].var_len, 2) \o ToBytes(funcs[i].arg_len, 1)])
        \o Flatten([i \in 1..n |-> Flatten(funcs[i].body)])
        \o <<sentinel>>

Func(body, var_len, arg_len) == [body |-> body, var_len |-> var_len, arg_len |-> arg_len]

(* instructions *)
NOP == <<0>>
EXIT == <<1>>
CALL(code) == <<2, code>>
INVOKE(pool_i) == <<3>> \o ToBytes(pool_i, 8)
RET == <<4>>
BPUSH(b) == <<5, b>>
SPUSH(v) == <<6>> \o v
IPUSH(v) == <<7>> \o v
LPUSH(v) == <<8>> \o v
DUP == <<9>>
DUP2 == <<10>>
POP == <<11>>
POP2 == <<12>>
LOAD(i) == <<13>> \o ToBytes(i, 2)
LOAD2(i) == <<14>> \o ToBytes(i, 2)
STORE(i) == <<15>> \o ToBytes(i, 2)
STORE2(i) == <<16>> \o ToBytes(i, 2)
GOTO(d) == <<31>> \o ToBytes((d + 65536) % 65536, 2)
IF_(d) == <<32>> \o ToBytes((d + 65536) % 65536, 2)

(* the operands the arithmetic and the comparisons are run on *)
Samples32 == {<<0, 0, 0, 0>>, <<1, 0, 0, 0>>, <<2, 0, 0, 0>>, <<0, 1, 0, 0>>, <<255, 255, 0, 0>>,
              <<0, 0, 0, 128>>, <<254, 255, 255, 255>>, <<255, 255, 255, 255>>}

Samples64 == {<<0, 0, 0, 0, 0, 0, 0, 0>>, <<1, 0, 0, 0, 0, 0, 0, 0>>, <<3, 0, 0, 0, 0, 0, 0, 0>>,
              <<255, 255, 255, 255, 0, 0, 0, 0>>, <<0, 0, 0, 0, 1, 0, 0, 0>>,
              <<0, 0, 0, 0, 0, 0, 0, 128>>, <<255, 255, 255, 255, 255, 255, 255, 255>>}

(* the functions 1.. of every container: a leaf with one argument and two *)
(* slots, a caller of it, a function that calls itself, one whose slots do *)
(* not fit the region, one with more arguments than slots, one that calls  *)
(* itself with 60 slots, and a leaf that leaves operands behind            *)
Library ==
    << Func(<<LOAD(0), POP, RET>>, 2, 1),
       Func(<<IPUSH(<<5, 0, 0, 0>>), INVOKE(1), LOAD(0), STORE(0), RET>>, 1, 0),
       Func(<<INVOKE(3)>>, 0, 0),
       Func(<<RET>>, 300, 0),
       Func(<<RET>>, 1, 2),
       Func(<<INVOKE(6)>>, 60, 0),
       Func(<<LPUSH(<<9, 0, 0, 0, 0, 0, 0, 0>>), BPUSH(3), STORE(1), RET>>, 3, 2) >>

Program(main, sentinel) == Container(<<Func(main, 0, 0)>> \o Library, sentinel)

(* the bound of the enumerated instruction sequences *)
MaxLen == 3

Menu == {IPUSH(<<1, 0, 0, 0>>), IPUSH(<<0, 0, 0, 0>>), DUP, POP, LOAD(0), STORE(1),
         INVOKE(1), RET, <<17>>, IF_(1)}

RECURSIVE Sequences(_)
Sequences(n) ==
    IF n = 0 THEN {<<>>}
    ELSE Sequences(n - 1) \cup {Append(q, i) : q \in {x \in Sequences(n - 1) : Len(x) = n - 1}, i \in Menu}

(* every sequence of at most MaxLen instructions of the menu, run as the   *)
(* entry point and as a function called with two operands on the stack     *)
EnumeratedPrograms ==
    {Program(q \o <<EXIT>>, 1) : q \in Sequences(MaxLen)}
    \cup {Container(<<Func(<<IPUSH(<<7, 0, 0, 0>>), IPUSH(<<8, 0, 0, 0>>), INVOKE(8), EXIT>>, 0, 0)>>
                    \o Library \o <<Func(q \o <<RET>>, 2, 1)>>, 1) : q \in Sequences(MaxLen)}

(* two operands and one operation on them *)
BinaryPrograms ==
    {Program(<<IPUSH(l), IPUSH(r), <<op>>, EXIT>>, 1) :
        l \in Samples32, r \in Samples32, op \in {17, 19, 21, 23, 25, 27, 29}}
    \cup {Program(<<LPUSH(l), LPUSH(r), <<op>>, EXIT>>, 1) :
        l \in Samples64, r \in Samples64, op \in {18, 20, 22, 24, 26, 28, 30}}

(* the scenarios: calls and returns, loops that fill the region, every      *)
(* opcode, and a return from the entry point to each kind of sentinel byte  *)
Scenarios ==
    {Program(<<RET>>, b) : b \in {0, 1, 2, 4, 5, 9, 11, 13, 17, 31, 33, 255}}
    \cup {Program(<<IPUSH(<<7, 0, 0, 0>>), INVOKE(f), EXIT>>, 1) : f \in 0..9}
    \cup {Program(<<IPUSH(<<7, 0, 0, 0>>), IPUSH(<<8, 0, 0, 0>>), INVOKE(f), POP, RET>>, 1) : f \in {1, 2, 7}}
    \cup {Program(<<p, GOTO(0 - (Len(p) + 3))>>, 1) :
            p \in {BPUSH(200), SPUSH(<<1, 2>>), IPUSH(<<1, 2, 3, 4>>), LPUSH(<<1, 2, 3, 4, 5, 6, 7, 8>>)}}
    \cup {Program(<<BPUSH(1), LPUSH(<<1, 2, 3, 4, 5, 6, 7, 8>>), p, GOTO(0 - (Len(p) + 3))>>, 1) :
            p \in {DUP, DUP2, LOAD(0), LOAD2(1)}}
    \cup {Program(<<LPUSH(<<1, 0, 0, 0, 2, 0, 0, 0>>), p, EXIT>>, 1) :
            p \in {NOP, CALL(0), CALL(1), CALL(255), POP2, DUP2, STORE2(0), LOAD2(0), STORE(3), LOAD(7),
                   GOTO(0), GOTO(1), GOTO(2), GOTO(0 - 13), GOTO(0 - 400), GOTO(400), IF_(0), IF_(1), IF_(400),
                   GOTO(3), IF_(2), IF_(3), IF_(0 - 3), IF_(0 - 400),
                   <<33>>, <<128>>, <<255>>, INVOKE(4), INVOKE(5), INVOKE(6), INVOKE(40), INVOKE(Huge)}}
    \cup {Program(<<p>>, 1) : p \in {NOP, CALL(0), IPUSH(<<1, 0, 0, 0>>), POP, INVOKE(3), INVOKE(6),
                                         <<3, 1, 0>>, <<7, 1>>, <<31, 1>>}}

(* what ChesVM::run and Interpreter::launch must turn away, and containers  *)
(* that end inside the pool                                                 *)
Prefixes ==
    LET c == Program(<<EXIT>>, 1)
        bad == [c EXCEPT ![8] = 0]
    IN  {SubSeq(c, 1, n) : n \in {0, 1, 7, 8, 15, 16, 18, 19, 127, 128, 135, 136, 140, Len(c) - 1}}
        \cup {SubSeq(bad, 1, n) : n \in {7, 8, 19, 127, 128, Len(c)}}
        \cup {[c EXCEPT ![1] = 0], [c EXCEPT ![129] = 255], [c EXCEPT ![130] = 255],
              [c EXCEPT ![137] = 0, ![138] = 0]}

(* pushes that are popped again, and a store to a slot followed by a load   *)
(* of it, in the frame of the entry point and in a called function of two   *)
(* slots                                                                    *)
RoundTrips ==
    {Program(<<IPUSH(<<2, 0, 0, 0>>), IPUSH(<<3, 0, 0, 0>>), <<17>>, POP, EXIT>>, 1),
     Program(<<LPUSH(<<1, 2, 3, 4, 5, 6, 7, 8>>), DUP2, POP2, EXIT>>, 1),
     Program(<<BPUSH(9), POP, SPUSH(<<1, 2>>), POP, EXIT>>, 1)}
    \cup {Program(<<IPUSH(<<10, 0, 0, 0>>), IPUSH(<<11, 0, 0, 0>>), IPUSH(<<12, 0, 0, 1>>),
                    STORE(i), LOAD(i), EXIT>>, 1) : i \in 0..2}
    \cup {Program(<<LPUSH(<<1, 0, 0, 0, 0, 0, 0, 0>>), LPUSH(<<2, 0, 0, 0, 0, 0, 0, 0>>),
                    LPUSH(<<3, 0, 0, 0, 0, 0, 0, 128>>), STORE2(i), LOAD2(i), EXIT>>, 1) : i \in 0..4}
    \cup {Container(<<Func(<<IPUSH(<<7, 0, 0, 0>>), IPUSH(<<8, 0, 0, 0>>), INVOKE(8), EXIT>>, 0, 0)>>
                    \o Library
                    \o <<Func(<<IPUSH(<<13, 0, 0, 0>>), STORE(i), LOAD(i), RET>>, 2, 1)>>, 1) : i \in 0..2}
    \cup {Container(<<Func(<<IPUSH(<<7, 0, 0, 0>>), IPUSH(<<8, 0, 0, 0>>), INVOKE(8), EXIT>>, 0, 0)>>
                    \o Library
                    \o <<Func(<<LPUSH(<<14, 0, 0, 0, 15, 0, 0, 0>>), STORE2(i), LOAD2(i), RET>>, 2, 1)>>, 1) :
            i \in 0..1}

(* loads and stores at the last slots of a function of 200 slots and past   *)
(* them, and at the slots of a function of two slots and past them with two *)
(* operands pushed above the slots                                          *)
SlotAccesses ==
    {Container(<<Func(<<INVOKE(8), EXIT>>, 0, 0)>> \o Library
               \o <<Func(<<p, EXIT>>, 200, 0)>>, 1) :
        p \in {LOAD(198), LOAD(199), LOAD(200), LOAD(65535), LOAD2(197), LOAD2(198), LOAD2(199),
               LOAD2(65535), STORE(197), STORE(198), STORE(199), STORE(65535),
               STORE2(195), STORE2(196), STORE2(197)}}
    \cup {Container(<<Func(<<IPUSH(<<7, 0, 0, 0>>), INVOKE(8), EXIT>>, 0, 0)>> \o Library
                    \o <<Func(<<IPUSH(<<21, 0, 0, 0>>), IPUSH(<<22, 0, 0, 0>>), p, EXIT>>, 2, 1)>>, 1) :
        p \in {LOAD(1), LOAD(2), LOAD(3), LOAD(4), LOAD2(0), LOAD2(1), LOAD2(2), LOAD2(3),
               STORE(1), STORE(2), STORE(3), STORE2(0), STORE2(1), STORE2(2)}}

Containers ==
    EnumeratedPrograms \cup BinaryPrograms \cup Scenarios \cup RoundTrips \cup SlotAccesses
    \cup Prefixes

Init ==
    /\ bytecode \in Containers
    /\ phase = "start"
    /\ outcome = "none"
    /\ arena = "none"
    /\ freed_at = 0
    /\ is_init_succeeded = TRUE
    /\ es = "Success"
    /\ pc = 0 /\ sp = 0 /\ bp = 0 /\ pp = 0
    /\ inst_ptr = 0 /\ pool_ptr = 0 /\ stack_ptr = 0
    /\ stack = <<>>
    /\ console = <<>>
    /\ wild = {}
    /\ frames = <<>>
    /\ last = NoLast
    /\ prev = NoLast
    /\ prev2 = NoLast
    /\ fail = NoFail

Next ==
    \/ ChesVM_run \/ launch \/ run_init \/ FetchFails \/ run_return
    \/ OpNop \/ OpExit \/ OpCall \/ OpInvoke \/ OpRet
    \/ OpBPush \/ OpSPush \/ OpIPush \/ OpLPush
    \/ OpDup \/ OpDup2 \/ OpPop \/ OpPop2
    \/ OpLoad \/ OpLoad2 \/ OpStore \/ OpStore2
    \/ OpIAdd \/ OpLAdd \/ OpISub \/ OpLSub \/ OpIMul \/ OpLMul \/ OpIDiv \/ OpLDiv
    \/ OpIEq \/ OpLEq \/ OpIOrd \/ OpLOrd \/ OpIEqOrd \/ OpLEqOrd
    \/ OpGoto \/ OpIf \/ OpUnknown

Spec == Init /\ [][Next]_vars

----------------------------------------------------------------------------
(* The properties.  They read the history the actions keep: `last` holds    *)
(* the registers and the stack bytes before the last instruction, so the    *)
(* operands of that instruction are read from the stack as it was, not from *)
(* the locals of the machine.                                               *)

Running == phase = "loop"

Ended == phase \in {"exited", "returned"}

(* the bytes [off, off + w) of st were all written *)
Defined(st, off, w) ==
    off >= 0 /\ off + w <= Len(st) /\ \A i \in (off + 1)..(off + w) : st[i] # Uninit

(* the last instruction found two operands of ty bytes above the saved bp   *)
(* and the return address of its frame                                      *)
TwoOperands(ty) ==
    /\ last.sp >= last.bp + usize_size * 2 + 2 * ty
    /\ Defined(last.stack, last.sp - 2 * ty, 2 * ty)

(* the operand pushed first and the operand pushed last *)
LeftOperand(ty) == ReadStack(last.stack, last.sp - 2 * ty, ty, 0)

RightOperand(ty) == ReadStack(last.stack, last.sp - ty, ty, 0)

(* the ty bytes on top of the stack now *)
TopOfStack(ty) == ReadStack(stack, sp - ty, ty, 0)

(* the last instruction was a RET that unwound a frame of this kind *)
Returned(kind) == last.kind = "Ret" /\ ~last.brk /\ last.frame.kind = kind

(* C1: at the start of every dispatch cycle 0 <= sp <= 1024 and bp <= sp *)
C1_CycleBounds == Running => (0 <= sp /\ sp <= max_stack_size /\ bp <= sp)

(* a cycle starts with the region full, inside a called function *)
C1_Witness == Running /\ sp = max_stack_size /\ bp > 0 /\ last.kind = "Invoke"

(* C2: right after the RET that unwinds the frame an INVOKE built, bp is    *)
(* what it was right before that INVOKE                                     *)
C2_BpRestored == Returned("call") => bp = last.frame.bp

(* a RET into a function that was itself called, after a nested call *)
C2_Witness == Returned("call") /\ last.frame.bp > 0 /\ bp = last.frame.bp /\ Len(frames) >= 2

(* C3: right after that RET, pc is the byte after the 8 byte operand of the *)
(* INVOKE and sp is the sp before the INVOKE less 4 bytes per argument      *)
C3_ReturnSite ==
    Returned("call") => (pc = last.frame.ret /\ sp = last.frame.sp - 4 * last.frame.arg_len)

(* a RET from a function of two arguments that had operands left *)
C3_Witness ==
    /\ Returned("call") /\ last.frame.arg_len = 2
    /\ last.sp > last.bp + usize_size * 2 + 4 * last.frame.var_len
    /\ sp = last.frame.sp - 8

(* C4: the first failing check inside the loop ends the run: from then on   *)
(* the status is that of the failure, pc, sp, bp and the stack bytes stay   *)
(* as they were at the check, and run returns that status                   *)
C4_FirstFailureEnds ==
    (fail.status # "none" /\ fail.in_loop) =>
        /\ Ended
        /\ es = fail.status
        /\ pc = fail.at.pc /\ sp = fail.at.sp /\ bp = fail.at.bp /\ stack = fail.at.stack
        /\ (phase = "returned" => outcome = fail.status)

(* an INVOKE that failed after it had popped its arguments and pushed the   *)
(* frame, and the run has returned                                          *)
C4_Witness ==
    /\ phase = "returned" /\ fail.in_loop /\ outcome = fail.status
    /\ last.kind = "Invoke" /\ fail.at.sp > last.sp

(* C5: an input shorter than 128 bytes is rejected as an invalid header     *)
(* size, a longer one with another magic number as an invalid magic number; *)
(* no instruction runs and no region is allocated                           *)
C5_Rejection ==
    /\ (phase # "start" /\ Len(bytecode) < HEADER_SIZE) =>
           /\ phase = "rejected"
           /\ outcome \in {"InvalidHeaderSize", "panic: invalid header size"}
           /\ arena = "none" /\ last = NoLast
    /\ (phase # "start" /\ Len(bytecode) >= HEADER_SIZE /\ SubSeq(bytecode, 1, 8) # MAGIC_NUMBER) =>
           /\ phase = "rejected"
           /\ outcome \in {"InvalidMagicNumber", "panic: invalid magic number"}
           /\ arena = "none" /\ last = NoLast

(* the frame of the entry point was pushed and has been unwound *)
EntryUnwound == is_init_succeeded /\ arena # "none" /\ frames = <<>>

(* C6: run returns Success exactly when the last opcode dispatched was      *)
(* EXIT; a RET from the frame of the entry point leaves pc = len - 1 and    *)
(* sp = bp = 0, and the run then returns Success exactly when the byte at   *)
(* len - 1 is 0x01                                                          *)
C6_Success ==
    /\ phase = "returned" => (outcome = "Success" <=> last.kind = "Exit")
    /\ Returned("entry") => (pc = Len(bytecode) - 1 /\ sp = 0 /\ bp = 0)
    /\ (phase = "returned" /\ EntryUnwound) =>
           (outcome = "Success" <=> bytecode[Len(bytecode)] = 1)

(* the entry point returned to a sentinel EXIT and the run returned Success *)
C6_Witness == phase = "returned" /\ EntryUnwound /\ outcome = "Success"

(* C7: IDIV and LDIV with a right operand of 0 end the run with             *)
(* DivideByZero whatever the left operand is, and no pair of operands ends  *)
(* them with ArithmeticOverflow                                             *)
C7_DivideByZero ==
    \A ty \in {4, 8} :
        (last.kind = (IF ty = 4 THEN "IDiv" ELSE "LDiv") /\ TwoOperands(ty)) =>
            /\ RightOperand(ty) = Zero(ty) =>
                   (last.brk /\ Ended /\ es = "DivideByZero"
                    /\ (phase = "returned" => outcome = "DivideByZero"))
            /\ es # "ArithmeticOverflow"

(* LDIV of a left operand that is not 0 by 0 *)
C7_Witness ==
    /\ last.kind = "LDiv" /\ TwoOperands(8)
    /\ RightOperand(8) = Zero(8) /\ LeftOperand(8) # Zero(8)
    /\ outcome = "DivideByZero"

(* 2^w - 1 - a: every byte complemented *)
RECURSIVE Complement(_)
Complement(a) == IF a = <<>> THEN <<>> ELSE <<255 - Head(a)>> \o Complement(Tail(a))

(* a shifted up by k bytes, as width bytes *)
ShiftBytes(a, k, width) == SubSeq(Zero(k) \o a \o Zero(width), 1, width)

(* the exact product of a and b, twice as wide as they are: the sum of the  *)
(* rows of the long multiplication, one per byte of b                       *)
RECURSIVE ExactProduct(_, _, _)
ExactProduct(a, b, i) ==
    IF i > Len(b) THEN Zero(2 * Len(a))
    ELSE AddFrom(ShiftBytes(TimesFrom(a, b[i], 1, 0), i - 1, 2 * Len(a)),
                 ExactProduct(a, b, i + 1), 1, 0).value

(* the exact result of left OP right lies in [0, 2^w) *)
Fits(op, l, r) ==
    CASE op = "+" -> ~LessThan(Complement(r), l)
      [] op = "-" -> ~LessThan(l, r)
      [] op = "*" -> SubSeq(ExactProduct(l, r, 1), Len(l) + 1, 2 * Len(l)) = Zero(Len(l))

(* v is the exact result of left OP right *)
IsExact(op, l, r, v) ==
    CASE op = "+" -> SubFrom(v, r, 1, 0) = [value |-> l, overflowing |-> FALSE]
      [] op = "-" -> AddFrom(v, r, 1, 0) = [value |-> l, overflowing |-> FALSE]
      [] op = "*" -> SubSeq(ExactProduct(l, r, 1), 1, Len(l)) = v

ArithmeticForms ==
    {<<"IAdd", 4, "+">>, <<"LAdd", 8, "+">>, <<"ISub", 4, "-">>, <<"LSub", 8, "-">>,
     <<"IMul", 4, "*">>, <<"LMul", 8, "*">>}

(* C8: IADD, LADD, ISUB, LSUB, IMUL and LMUL push the exact result of left  *)
(* OP right and leave sp smaller by the width of an operand when the result *)
(* fits in the width; otherwise the run ends with ArithmeticOverflow and    *)
(* nothing is pushed                                                        *)
C8_Arithmetic ==
    \A f \in ArithmeticForms :
        (last.kind = f[1] /\ TwoOperands(f[2])) =>
            IF Fits(f[3], LeftOperand(f[2]), RightOperand(f[2]))
            THEN /\ ~last.brk /\ es = "Success"
                 /\ sp = last.sp - f[2]
                 /\ IsExact(f[3], LeftOperand(f[2]), RightOperand(f[2]), TopOfStack(f[2]))
            ELSE /\ last.brk /\ Ended /\ es = "ArithmeticOverflow"
                 /\ stack = last.stack

(* LMUL of 2^32 - 1 by 3, whose product needs more than 32 bits *)
C8_Witness ==
    /\ last.kind = "LMul" /\ TwoOperands(8)
    /\ LeftOperand(8) = <<255, 255, 255, 255, 0, 0, 0, 0>>
    /\ RightOperand(8) = <<3, 0, 0, 0, 0, 0, 0, 0>>
    /\ TopOfStack(8) = <<253, 255, 255, 255, 2, 0, 0, 0>>

ComparisonForms ==
    {<<"IEq", 4, "=">>, <<"LEq", 8, "=">>, <<"IOrd", 4, "<">>, <<"LOrd", 8, "<">>,
     <<"IEqOrd", 4, "<=">>, <<"LEqOrd", 8, "<=">>}

(* left OP right under the unsigned ordering: l < r exactly when l - r      *)
(* borrows out of the most significant byte                                 *)
Holds(op, l, r) ==
    CASE op = "="  -> l = r
      [] op = "<"  -> SubFrom(l, r, 1, 0).overflowing
      [] op = "<=" -> ~SubFrom(r, l, 1, 0).overflowing

(* C9: a comparison pops both operands, pushes the 32 bit word 1 when left  *)
(* OP right holds under the unsigned ordering and 0 when it does not, and   *)
(* leaves sp smaller by twice the width of an operand less 4                *)
C9_Comparison ==
    \A f \in ComparisonForms :
        (last.kind = f[1] /\ TwoOperands(f[2])) =>
            /\ ~last.brk /\ es = "Success"
            /\ sp = last.sp - (2 * f[2] - 4)
            /\ TopOfStack(4) = (IF Holds(f[3], LeftOperand(f[2]), RightOperand(f[2]))
                                THEN <<1, 0, 0, 0>> ELSE <<0, 0, 0, 0>>)

(* LORD of 2^63, which a signed ordering would put below 1, and 1 *)
C9_Witness ==
    /\ last.kind = "LOrd" /\ TwoOperands(8)
    /\ LeftOperand(8) = <<0, 0, 0, 0, 0, 0, 0, 128>>
    /\ RightOperand(8) = <<1, 0, 0, 0, 0, 0, 0, 0>>
    /\ TopOfStack(4) = <<0, 0, 0, 0>> /\ sp = last.sp - 12

(* the descriptor the INVOKE at last.pc names, read from the container *)
InvokedDescriptor ==
    LET pool_i == ToNat(ReadCode(last.pc + 1, usize_size, 0))
        addr   == ToNat(ReadCode(pool_offset + pool_i * usize_size, usize_size, 0))
    IN  [in_bounds |-> /\ last.pc + 1 + usize_size <= Len(bytecode)
                       /\ pool_offset + pool_i * usize_size + usize_size <= Len(bytecode)
                       /\ addr + 11 <= Len(bytecode),
         start   |-> ToNat(ReadCode(addr, usize_size, 0)),
         var_len |-> ToNat(ReadCode(addr + usize_size, 2, 0)),
         arg_len |-> ToNat(ReadCode(addr + usize_size + 2, 1, 0))]

(* the last instruction met every check but the capacity: its operand lies  *)
(* in the container, what it pops or reads lies above the header of the     *)
(* frame, and the bytes it pushes or reserves would move sp above 1024      *)
ExceedsCapacity ==
    \/ /\ last.kind \in {"BPush", "SPush", "IPush", "LPush"}
       /\ last.pc + 1 + (CASE last.kind = "BPush" -> 1 [] last.kind = "SPush" -> 2
                           [] last.kind = "IPush" -> 4 [] last.kind = "LPush" -> 8)
              <= Len(bytecode)
       /\ last.sp + (IF last.kind = "LPush" THEN 8 ELSE 4) > max_stack_size
    \/ /\ last.kind \in {"Dup", "Dup2"}
       /\ last.sp >= last.bp + usize_size * 2 + (IF last.kind = "Dup" THEN 4 ELSE 8)
       /\ last.sp + (IF last.kind = "Dup" THEN 4 ELSE 8) > max_stack_size
    \/ /\ last.kind \in {"Load", "Load2"}
       /\ last.pc + 3 <= Len(bytecode)
       /\ last.sp >= last.bp + usize_size * 2
       /\ last.sp - last.bp - usize_size * 2
              >= 4 * ToNat(ReadCode(last.pc + 1, 2, 0)) + (IF last.kind = "Load" THEN 4 ELSE 8)
       /\ last.sp + (IF last.kind = "Load" THEN 4 ELSE 8) > max_stack_size
    \/ /\ last.kind = "Invoke"
       /\ InvokedDescriptor.in_bounds
       /\ InvokedDescriptor.var_len >= InvokedDescriptor.arg_len
       /\ last.sp >= last.bp + usize_size * 2 + 4 * InvokedDescriptor.arg_len
       /\ last.sp - 4 * InvokedDescriptor.arg_len + usize_size * 2
              + 4 * InvokedDescriptor.var_len > max_stack_size

(* C10: every instruction that would move sp above 1024, by a push or by    *)
(* the slots INVOKE reserves, ends the run with StackOverflow, and sp never *)
(* exceeds 1024                                                             *)
C10_StackOverflow ==
    /\ sp <= max_stack_size
    /\ ExceedsCapacity => (last.brk /\ Ended /\ es = "StackOverflow")

(* the signed 16 bit operand of the GOTO or IF at last.pc, read from the    *)
(* container: the two bytes after the opcode, least significant first       *)
InlineOffset ==
    LET lo == bytecode[last.pc + 2]
        hi == bytecode[last.pc + 3]
    IN  IF hi >= 128 THEN lo + 256 * hi - 65536 ELSE lo + 256 * hi

(* the last instruction found one operand of ty bytes above the saved bp    *)
(* and the return address of its frame                                      *)
OneOperand(ty) ==
    /\ last.sp >= last.bp + usize_size * 2 + ty
    /\ Defined(last.stack, last.sp - ty, ty)

(* the ty bytes that were on top of the stack before the last instruction *)
TopBefore(ty) == ReadStack(last.stack, last.sp - ty, ty, 0)

(* the last instruction was an IF whose two operand bytes lie in the        *)
(* container and whose condition was on the stack                           *)
IfRan == last.kind = "If" /\ OneOperand(4) /\ last.pc + 3 <= Len(bytecode)

(* C11: an IF at offset p that pops a condition of 0 reads its two offset   *)
(* bytes and the next opcode is fetched from p + 3                          *)
C11_IfZeroSkipsOffset ==
    (IfRan /\ TopBefore(4) = Zero(4)) =>
        (~last.brk /\ sp = last.sp - 4 /\ pc = last.pc + 3)

(* the last instruction was a GOTO whose operand lies in the container, or  *)
(* an IF that popped a condition other than 0                               *)
Jumped ==
    \/ last.kind = "Goto" /\ last.pc + 3 <= Len(bytecode)
    \/ IfRan /\ TopBefore(4) # Zero(4)

(* the target of that jump: the position after the offset bytes plus the    *)
(* offset                                                                   *)
Target == last.pc + 3 + InlineOffset

(* C12: a GOTO at p, and an IF at p that popped a condition other than 0,   *)
(* with the signed offset d: when p + 3 + d is below 0 or above the length  *)
(* the run ends with BytecodeAccessViolation, otherwise the next opcode is  *)
(* fetched from p + 3 + d; bp and the stack bytes are unchanged and sp moves *)
(* only by the condition the IF pops                                        *)
C12_JumpTarget ==
    Jumped =>
        /\ IF Target < 0 \/ Target > Len(bytecode)
           THEN last.brk /\ Ended /\ es = "BytecodeAccessViolation"
           ELSE ~last.brk /\ pc = Target
        /\ bp = last.bp /\ stack = last.stack
        /\ sp = (IF last.kind = "If" THEN last.sp - 4 ELSE last.sp)

(* an IF that jumped backwards, to its own opcode *)
C12_Witness ==
    /\ IfRan /\ TopBefore(4) # Zero(4) /\ InlineOffset < 0
    /\ ~last.brk /\ pc = Target /\ pc = last.pc /\ sp = last.sp - 4

(* the operations of the table of opcodes, 0x00 first *)
OpcodeTable ==
    <<"Nop", "Exit", "Call", "Invoke", "Ret", "BPush", "SPush", "IPush", "LPush", "Dup", "Dup2",
      "Pop", "Pop2", "Load", "Load2", "Store", "Store2", "IAdd", "LAdd", "ISub", "LSub",
      "IMul", "LMul", "IDiv", "LDiv", "IEq", "LEq", "IOrd", "LOrd", "IEqOrd", "LEqOrd",
      "Goto", "If">>

(* C13: the decoder maps the bytes 0x00..0x20 to the operations of the      *)
(* table, each to another one, and every byte from 0x21 on to Unknown; the  *)
(* loop dispatches on what the decoder says, and an Unknown opcode ends the *)
(* run with UnknownOpcode and leaves sp, bp and the stack bytes alone.  The *)
(* decoder reads no state: its table is compared once, before the run      *)
C13_Decoder ==
    /\ phase = "start" =>
           /\ \A b \in 0..32 : Opcode_from(b) = OpcodeTable[b + 1]
           /\ Cardinality({Opcode_from(b) : b \in 0..32}) = 33
           /\ \A b \in 33..255 : Opcode_from(b) = "Unknown"
    /\ last.op \in 0..32 => last.kind = OpcodeTable[last.op + 1]
    /\ last.op \in 33..255 =>
           /\ last.kind = "Unknown" /\ last.brk /\ Ended /\ es = "UnknownOpcode"
           /\ sp = last.sp /\ bp = last.bp /\ stack = last.stack
           /\ (phase = "returned" => outcome = "UnknownOpcode")

(* the byte 0x21 was dispatched with operands on the stack and the run      *)
(* returned                                                                 *)
C13_Witness ==
    /\ last.op = 33 /\ last.kind = "Unknown" /\ last.sp > last.bp + usize_size * 2
    /\ phase = "returned" /\ outcome = "UnknownOpcode"

(* the last instruction was a CALL whose code byte lies in the container *)
CallRan == last.kind = "Call" /\ last.pc + 2 <= Len(bytecode)

(* C14: CALL with the code 0x00 leaves sp, bp and the stack bytes as they   *)
(* were and moves pc by 2; the 8 bytes it writes to the console are the top *)
(* of the region, read without a pop and without the check of the frame;    *)
(* CALL with any other code ends the run with UnknownCallNumber             *)
C14_HostCall ==
    CallRan =>
        IF bytecode[last.pc + 2] = 0
        THEN /\ ~last.brk /\ es = "Success"
             /\ sp = last.sp /\ bp = last.bp /\ stack = last.stack
             /\ pc = last.pc + 2
             /\ last.sp >= usize_size
             /\ Defined(last.stack, last.sp - usize_size, usize_size) =>
                    console = ReadStack(last.stack, last.sp - usize_size, usize_size, 0)
        ELSE /\ last.brk /\ Ended /\ es = "UnknownCallNumber"
             /\ sp = last.sp /\ bp = last.bp /\ stack = last.stack

(* CALL 0x00 on an empty operand stack: the word it writes is the return    *)
(* address of the frame                                                     *)
C14_Witness ==
    /\ CallRan /\ bytecode[last.pc + 2] = 0 /\ ~last.brk
    /\ last.sp = last.bp + usize_size * 2 /\ sp = last.sp
    /\ console = ReadStack(stack, bp + usize_size, usize_size, 0)

(* the bytes of the region below n *)
Below(st, n) == [i \in 1..n |-> IF i <= Len(st) THEN st[i] ELSE Uninit]

(* a push and the pop of its width *)
PushPopForms ==
    {<<"BPush", "Pop">>, <<"SPush", "Pop">>, <<"IPush", "Pop">>, <<"LPush", "Pop2">>}

(* a push, the dup and the pop of its width *)
PushDupPopForms ==
    {<<"BPush", "Dup", "Pop">>, <<"SPush", "Dup", "Pop">>, <<"IPush", "Dup", "Pop">>,
     <<"LPush", "Dup2", "Pop2">>}

(* C15: a push that had room and the pop of its width right after it leave  *)
(* sp, bp and the stack bytes below sp as they were before the push; a      *)
(* push, the dup and the pop of its width leave them as they were after the *)
(* push                                                                     *)
C15_RoundTrip ==
    /\ \A f \in PushPopForms :
           (prev.kind = f[1] /\ ~prev.brk /\ last.kind = f[2]) =>
               /\ ~last.brk /\ es = "Success"
               /\ sp = prev.sp /\ bp = prev.bp
               /\ Below(stack, sp) = Below(prev.stack, prev.sp)
    /\ \A f \in PushDupPopForms :
           (prev2.kind = f[1] /\ ~prev2.brk /\ prev.kind = f[2] /\ ~prev.brk /\ last.kind = f[3]) =>
               /\ ~last.brk /\ es = "Success"
               /\ sp = prev.sp /\ bp = prev.bp
               /\ Below(stack, sp) = Below(prev.stack, prev.sp)

(* LPUSH, DUP2 and POP2 in a row: the stack ends with the pushed word on    *)
(* top, 8 bytes above where the LPUSH found it                              *)
C15_Witness ==
    /\ prev2.kind = "LPush" /\ prev.kind = "Dup2" /\ last.kind = "Pop2" /\ ~last.brk
    /\ sp = prev2.sp + 8 /\ sp = prev.sp
    /\ TopOfStack(8) = <<1, 2, 3, 4, 5, 6, 7, 8>>

(* the 16 bit slot index of the LOAD or STORE at rec.pc, read from the      *)
(* container                                                                *)
SlotIndex(rec) == bytecode[rec.pc + 2] + 256 * bytecode[rec.pc + 3]

StoreLoadForms == {<<"Store", "Load", 4>>, <<"Store2", "Load2", 8>>}

(* a STORE of slot i succeeded and the LOAD of its width of the same slot   *)
(* ran right after it                                                       *)
StoredThenLoaded(f) ==
    /\ prev.kind = f[1] /\ ~prev.brk
    /\ last.kind = f[2] /\ last.pc + 3 <= Len(bytecode)
    /\ SlotIndex(prev) = SlotIndex(last)

(* C16: when STORE i (STORE2 i) has popped v and succeeded, the LOAD i      *)
(* (LOAD2 i) right after it succeeds, unless the region is full, and leaves *)
(* v on top of the stack                                                    *)
C16_StoreLoad ==
    \A f \in StoreLoadForms :
        StoredThenLoaded(f) =>
            IF last.sp + f[3] > max_stack_size
            THEN last.brk /\ es = "StackOverflow"
            ELSE /\ ~last.brk /\ es = "Success"
                 /\ sp = last.sp + f[3] /\ sp = prev.sp
                 /\ Defined(prev.stack, prev.sp - f[3], f[3]) =>
                        TopOfStack(f[3]) = ReadStack(prev.stack, prev.sp - f[3], f[3], 0)

(* STORE2 0 and LOAD2 0 in a called function: the word went through the two *)
(* slots of the function, which held something else before                  *)
C16_Witness ==
    /\ StoredThenLoaded(<<"Store2", "Load2", 8>>) /\ ~last.brk /\ bp > 0
    /\ TopOfStack(8) = <<14, 0, 0, 0, 15, 0, 0, 0>>
    /\ ReadStack(stack, bp + usize_size * 2, 8, 0) = <<14, 0, 0, 0, 15, 0, 0, 0>>
    /\ ReadStack(prev.stack, bp + usize_size * 2, 4, 0) = <<8, 0, 0, 0>>

(* the last instruction was an EXIT in the frame of the entry point, with   *)
(* every operand the program had pushed consumed: nothing lies above the    *)
(* saved bp and the return address of the frame                             *)
ExitedBalanced ==
    /\ last.kind = "Exit"
    /\ Len(frames) = 1 /\ frames[1].kind = "entry"
    /\ last.sp = last.bp + usize_size * 2

(* C17, as the claim states it: such a run ends with Success and sp = 0 *)
C17_FinalSpZero ==
    ExitedBalanced => (Ended /\ es = "Success" /\ sp = 0)

(* C17, as the code has it: such a run ends with Success, and sp is 16: the *)
(* saved bp and the return address of the entry point are still on the      *)
(* stack, since EXIT unwinds nothing                                        *)
C17_FinalSpIsFrame ==
    ExitedBalanced =>
        /\ Ended /\ es = "Success" /\ (phase = "returned" => outcome = "Success")
        /\ sp = usize_size * 2 /\ bp = 0
        /\ ReadStack(stack, 0, usize_size, 0) = ToBytes(0, usize_size)
        /\ ReadStack(stack, usize_size, usize_size, 0) = ToBytes(Len(bytecode) - 1, usize_size)

(* IPUSH 2; IPUSH 3; IADD; POP; EXIT has returned *)
C17_Witness ==
    /\ ExitedBalanced /\ prev.kind = "Pop" /\ prev2.kind = "IAdd"
    /\ ReadStack(prev.stack, prev.sp - 4, 4, 0) = <<5, 0, 0, 0>>
    /\ phase = "returned" /\ outcome = "Success" /\ sp = usize_size * 2

(* C18: once run has set up its registers, the stack pointer is sp bytes    *)
(* above the origin of the region, the instruction pointer pc bytes and the *)
(* pool pointer pp bytes above the start of the buffer; the region is live  *)
(* until run returns, and on every return (failed initialisation, EXIT, any *)
(* failure status) it has been freed once, at its origin                    *)
C18_ArenaReleasedAtOrigin ==
    /\ phase \in {"loop", "exited", "returned"} =>
           (stack_ptr = sp /\ inst_ptr = pc /\ pool_ptr = pp)
    /\ phase \in {"loop", "exited"} => arena = "live"
    /\ phase = "returned" => (arena = "freed" /\ freed_at = 0)
    /\ arena = "freed" => phase = "returned"
    /\ arena # "freed twice"

(* run has returned from a failure inside a called function, after INVOKE   *)
(* moved the stack pointer by a jump and pushes and pops moved it further   *)
C18_Witness ==
    /\ phase = "returned" /\ arena = "freed" /\ freed_at = 0
    /\ Len(frames) >= 2 /\ es # "Success"
    /\ sp > usize_size * 2 /\ stack_ptr = sp /\ pc > pool_offset /\ inst_ptr = pc

(* the saved bp and the return address of frame f are in the sixteen bytes  *)
(* the frame starts with                                                    *)
HeaderIntact(f) ==
    /\ Defined(stack, f.new_bp, usize_size * 2)
    /\ ReadStack(stack, f.new_bp, usize_size, 0) = ToBytes(f.bp, usize_size)
    /\ ReadStack(stack, f.new_bp + usize_size, usize_size, 0) = ToBytes(f.ret, usize_size)

(* the instructions that take operands from the stack or put some on it *)
OperandKinds ==
    {"BPush", "SPush", "IPush", "LPush", "Dup", "Dup2", "Pop", "Pop2", "Load", "Load2",
     "Store", "Store2", "IAdd", "LAdd", "ISub", "LSub", "IMul", "LMul", "IDiv", "LDiv",
     "IEq", "LEq", "IOrd", "LOrd", "IEqOrd", "LEqOrd", "If"}

InvokeRan == last.kind = "Invoke" /\ InvokedDescriptor.in_bounds

(* the descriptor has fewer slots than arguments *)
TooFewSlots == InvokeRan /\ InvokedDescriptor.var_len < InvokedDescriptor.arg_len

(* fewer than 4 * arg_len bytes of operands lie above the saved bp and the  *)
(* return address of the calling frame                                      *)
TooFewOperands ==
    InvokeRan /\ last.sp < last.bp + usize_size * 2 + 4 * InvokedDescriptor.arg_len

(* C20: an INVOKE of a descriptor with var_len < arg_len, or with fewer     *)
(* than 4 * arg_len bytes of operands above bp + 16, ends the run with      *)
(* StackAccessViolation; bp is as it was, no byte of the stack was written  *)
(* (no saved bp, return address or argument was pushed) and no frame was    *)
(* built                                                                    *)
C20_InvokeRefused ==
    (TooFewSlots \/ TooFewOperands) =>
        /\ last.brk /\ Ended /\ es = "StackAccessViolation"
        /\ bp = last.bp
        /\ stack = last.stack
        /\ sp <= last.sp /\ sp >= last.bp + usize_size * 2
        /\ last.frame = NoFrame

(* a descriptor of one slot and two arguments was invoked with its two      *)
(* operands pushed, and was refused                                         *)
C20_Witness ==
    /\ TooFewSlots /\ ~TooFewOperands /\ InvokedDescriptor.arg_len = 2
    /\ last.brk /\ es = "StackAccessViolation" /\ bp = last.bp /\ stack = last.stack

(* the last instruction was an INVOKE that built a frame *)
Invoked == last.kind = "Invoke" /\ ~last.brk /\ last.frame.kind = "call"

(* argument k of the call the record of a turn describes, as the caller had *)
(* pushed it: argument 0 is the deepest of the arg_len words below its sp   *)
Argument(turn, k) ==
    ReadStack(turn.stack, turn.sp - 4 * (turn.frame.arg_len - k), 4, 0)

ArgumentDefined(turn, k) ==
    Defined(turn.stack, turn.sp - 4 * (turn.frame.arg_len - k), 4)

(* offset of slot k of the frame the call of that turn built *)
SlotOf(turn, k) == turn.frame.new_bp + usize_size * 2 + 4 * k

(* C21: after a successful INVOKE, pc is the start of the descriptor; the   *)
(* frame begins where the arguments of the caller began and holds the bp of *)
(* the caller, then the address of the byte after the operand of the        *)
(* INVOKE, then the arguments in slots 0 .. arg_len - 1, argument 0 (the    *)
(* deepest) in slot 0; sp is 4 * var_len above slot 0; a LOAD k with        *)
(* k < arg_len that runs next pushes argument k                             *)
C21_InvokeFrame ==
    /\ Invoked =>
           /\ InvokedDescriptor.in_bounds
           /\ pc = InvokedDescriptor.start
           /\ last.frame.var_len = InvokedDescriptor.var_len
           /\ last.frame.arg_len = InvokedDescriptor.arg_len
           /\ last.frame.new_bp = last.sp - 4 * last.frame.arg_len
           /\ ReadStack(stack, last.frame.new_bp, usize_size, 0) = ToBytes(last.bp, usize_size)
           /\ ReadStack(stack, last.frame.new_bp + usize_size, usize_size, 0)
                  = ToBytes(last.pc + 1 + usize_size, usize_size)
           /\ \A k \in 0..(last.frame.arg_len - 1) :
                  ArgumentDefined(last, k) =>
                      /\ Defined(stack, SlotOf(last, k), 4)
                      /\ ReadStack(stack, SlotOf(last, k), 4, 0) = Argument(last, k)
           /\ sp = SlotOf(last, 0) + 4 * last.frame.var_len
    /\ (/\ last.kind = "Load" /\ prev.kind = "Invoke" /\ ~prev.brk
        /\ prev.frame.kind = "call"
        /\ last.pc + 3 <= Len(bytecode)
        /\ ToNat(ReadCode(last.pc + 1, 2, 0)) < prev.frame.arg_len
        /\ last.sp + 4 <= max_stack_size) =>
           /\ ~last.brk /\ sp = last.sp + 4
           /\ ArgumentDefined(prev, ToNat(ReadCode(last.pc + 1, 2, 0))) =>
                  TopOfStack(4) = Argument(prev, ToNat(ReadCode(last.pc + 1, 2, 0)))

(* a function of two arguments was invoked with two different words *)
C21_Witness ==
    /\ Invoked /\ last.frame.arg_len = 2 /\ last.frame.var_len = 3
    /\ ArgumentDefined(last, 0) /\ ArgumentDefined(last, 1)
    /\ Argument(last, 0) # Argument(last, 1)
    /\ ReadStack(stack, SlotOf(last, 1), 4, 0) = Argument(last, 1)
    /\ sp = SlotOf(last, 0) + 12 /\ pc = InvokedDescriptor.start

(* a turn of the loop is about to start in a frame that is not unwound *)
FrameActive == phase = "loop" /\ frames # <<>>

(* the loop is about to start its first turn *)
JustInitialised == phase = "loop" /\ last = NoLast

(* C22, as the claim states it: while a frame is active bp is the offset    *)
(* of the byte after its return address, the start of slot 0; bp = sp       *)
(* after the frame of the entry point was pushed                            *)
C22_BpAtSlotZero ==
    /\ FrameActive => bp = frames[Len(frames)].new_bp + usize_size * 2
    /\ JustInitialised => bp = sp
    /\ (Invoked /\ phase = "loop") => bp = SlotOf(last, 0)

(* C22, as the code has it: while a frame is active bp is the offset of     *)
(* the first byte of the frame, where the saved bp lies; the return address *)
(* follows at bp + 8 and slot 0 starts at bp + 16.  After the frame of the  *)
(* entry point was pushed (saved bp 0, return address len - 1) bp is 0 and  *)
(* sp is 16; after a successful INVOKE bp is 16 below slot 0                *)
C22_BpAtFrameStart ==
    /\ FrameActive =>
           /\ bp = frames[Len(frames)].new_bp
           /\ ReadStack(stack, bp, usize_size, 0) = ToBytes(frames[Len(frames)].bp, usize_size)
           /\ ReadStack(stack, bp + usize_size, usize_size, 0)
                  = ToBytes(frames[Len(frames)].ret, usize_size)
           /\ sp >= bp + usize_size * 2
    /\ JustInitialised =>
           /\ bp = 0 /\ sp = usize_size * 2
           /\ frames = <<[kind |-> "entry", bp |-> 0, sp |-> 0, ret |-> Len(bytecode) - 1,
                          new_bp |-> 0, start |-> pc, var_len |-> 0, arg_len |-> 0,
                          args |-> <<>>]>>
    /\ (Invoked /\ phase = "loop") =>
           (bp = last.frame.new_bp /\ bp + usize_size * 2 = SlotOf(last, 0))

(* a call inside a called function has built its frame *)
C22_Witness ==
    /\ Invoked /\ FrameActive /\ Len(frames) >= 3
    /\ bp = last.frame.new_bp /\ bp > last.bp /\ last.bp > 0
    /\ sp >= bp + usize_size * 2

(* offset of the slot the LOAD or STORE of a turn names, in the frame the   *)
(* turn ran in                                                              *)
SlotStart(turn) == turn.bp + usize_size * 2 + 4 * SlotIndex(turn)

(* the slot index of the last instruction lies in the container *)
SlotDecoded == last.pc + 3 <= Len(bytecode)

LoadForms == {<<"Load", 4>>, <<"Load2", 8>>}

StoreForms == {<<"Store", 4>>, <<"Store2", 8>>}

(* st and old agree on every byte outside [off, off + w) *)
SameOutside(st, old, off, w) ==
    /\ Below(st, off) = Below(old, off)
    /\ \A j \in (off + w + 1)..max_stack_size :
           (IF j <= Len(st) THEN st[j] ELSE Uninit) = (IF j <= Len(old) THEN old[j] ELSE Uninit)

(* C23: LOAD i of width W is refused with StackAccessViolation when         *)
(* sp < bp + 16 + 4 i + W; otherwise it pushes the W bytes at bp + 16 + 4 i *)
(* (or ends with StackOverflow when the region has no room).  STORE i of    *)
(* width W is refused with StackAccessViolation when, W taken off sp for    *)
(* the popped value, sp < bp + 16 + 4 i + W; otherwise it writes the popped *)
(* value to the W bytes at bp + 16 + 4 i and nowhere else.  The bytes       *)
(* accessed lie at or above bp + 16 and below sp                            *)
C23_SlotAccess ==
    /\ \A f \in LoadForms :
           (last.kind = f[1] /\ SlotDecoded) =>
               IF last.sp < SlotStart(last) + f[2]
               THEN /\ last.brk /\ es = "StackAccessViolation"
                    /\ sp = last.sp /\ stack = last.stack
               ELSE IF last.sp + f[2] > max_stack_size
               THEN last.brk /\ es = "StackOverflow" /\ stack = last.stack
               ELSE /\ ~last.brk /\ sp = last.sp + f[2] /\ bp = last.bp
                    /\ Below(stack, last.sp) = Below(last.stack, last.sp)
                    /\ SlotStart(last) >= bp + usize_size * 2
                    /\ SlotStart(last) + f[2] <= last.sp
                    /\ Defined(last.stack, SlotStart(last), f[2]) =>
                           TopOfStack(f[2]) = ReadStack(last.stack, SlotStart(last), f[2], 0)
    /\ \A f \in StoreForms :
           (last.kind = f[1] /\ SlotDecoded) =>
               IF last.sp - f[2] < SlotStart(last) + f[2]
               THEN last.brk /\ es = "StackAccessViolation" /\ stack = last.stack
               ELSE /\ ~last.brk /\ sp = last.sp - f[2] /\ bp = last.bp
                    /\ SlotStart(last) >= bp + usize_size * 2
                    /\ SlotStart(last) + f[2] <= sp
                    /\ SameOutside(stack, last.stack, SlotStart(last), f[2])
                    /\ Defined(last.stack, last.sp - f[2], f[2]) =>
                           ReadStack(stack, SlotStart(last), f[2], 0) = TopBefore(f[2])

(* LOAD2 198 in a function of 200 slots has read the last eight bytes below *)
(* sp                                                                       *)
C23_Witness ==
    /\ last.kind = "Load2" /\ SlotDecoded /\ SlotIndex(last) = 198 /\ ~last.brk
    /\ SlotStart(last) + 8 = last.sp /\ sp = last.sp + 8 /\ last.bp > 0

(* the last instruction was a LOAD or STORE of width w, decoded inside a    *)
(* function a call had entered, and its slot index does not name w bytes of *)
(* the var_len slots of that function                                       *)
PastTheSlots(kind, w) ==
    /\ last.kind = kind /\ SlotDecoded
    /\ Len(frames) >= 2 /\ frames[Len(frames)].kind = "call"
    /\ frames[Len(frames)].new_bp = last.bp
    /\ 4 * SlotIndex(last) + w > 4 * frames[Len(frames)].var_len

(* C24: inside a called function a LOAD, LOAD2, STORE or STORE2 whose slot  *)
(* index is var_len or more (var_len - 1 or more for the 64 bit forms) ends *)
(* the run with StackAccessViolation, operands pushed above the slots or    *)
(* not                                                                      *)
C24_UndefinedSlotRefused ==
    \A f \in LoadForms \cup StoreForms :
        PastTheSlots(f[1], f[2]) => (last.brk /\ Ended /\ es = "StackAccessViolation")

(* C25: no read of the bytecode buffer leaves it, neither the two reads     *)
(* that resolve the entry point nor a fetch of an opcode, of an operand, of *)
(* a pool slot or of a descriptor; a fetch that would leave it ends the run *)
(* with BytecodeAccessViolation                                             *)
C25_ReadsInBounds ==
    /\ "bytecode" \notin wild
    /\ last.kind = "fetch failed" => (Ended /\ es = "BytecodeAccessViolation")

====
